---- MODULE Spec2Model ----
(***************************************************************************)
(* The per-post pipeline of src/video/generator.py (the __main__ block):   *)
(* images of a post are generated, the title, the body and the top scored  *)
(* comments are synthesized to audio under a duration budget, the image    *)
(* durations are matched to the audio segments, the last image absorbs the *)
(* difference to the total audio length, and the video is generated.       *)
(*                                                                         *)
(* Durations are the floats of the source.  They are held as integers in   *)
(* units of 1/UnitsPerSecond seconds, a unit chosen so that every division *)
(* the pipeline performs on the modelled inputs is exact; the IEEE         *)
(* rounding of the source (about 1e-15 relative) is far below the 1e-3 and *)
(* 0.01 s thresholds the pipeline and its specification speak of.          *)
(*                                                                         *)
(* Texts are sequences of tokens: "w" a word of at least two characters,   *)
(* "u" a URL (what _remove_urls deletes), "a:" the author prefix of a      *)
(* comment ("{author}: ").                                                 *)
(*                                                                         *)
(* Further specifications over the same variables, each leaving the        *)
(* variables of the others at their idle values:                           *)
(*   LayoutSpec      text wrapping, drawing and comment pagination of      *)
(*                   src/content/generator.py                              *)
(*   PlannerSpec     max_length of plan_content, src/llm/generator.py      *)
(*   ParserSpec      save_posts and file cleanup, src/reddit/parser.py     *)
(*   BatchSpec       the loops over the posts of a data file               *)
(*   ConcurrentSpec  two posts at once on the shared image generator       *)
(***************************************************************************)
EXTENDS Integers, Sequences, FiniteSets, TLC

\* ------------------------------------------------------------------ bounds
\* Most comments a modelled post carries.
MaxComments == 2

\* One second, in the model's duration unit: a multiple of 100 (the 0.01 s
\* floor), of every image count a segment is split over (PartCounts, and 2
\* for the main image listed twice) and of every speed factor numerator.
UnitsPerSecond == 100 * 2
Sec(n) == n * UnitsPerSecond
\* 0.01 seconds: the floor of the last-image adjustment.
MinLastDuration == UnitsPerSecond \div 100

\* Most words of a paragraph of a laid out text.
MaxWords == 3
\* Most comment parts generated for one text (part_idx is unbounded in the
\* source when no line fits on an image).
MaxParts == 6

\* ------------------------------------------------------------- input sets
Titles == {<<>>, <<"w">>}
PostBodies == {<<>>, <<"u">>, <<"w">>}
CommentBodies == {<<"u">>, <<"w">>}
Scores == {1, 2}
\* config video.max_duration_seconds, in seconds
Budgets == {4, 6}
\* config content.tts.speed_factor as <<numerator, denominator>>
SpeedFactors == {<<1, 1>>, <<1, 2>>}
\* config reddit.max_comments_per_post (5 is the default of the source)
CommentCaps == {1, 5}
\* numbers of image parts post_to_images paginates a comment into
PartCounts == {1, 2}
\* audio lengths the synthesizer returns, in seconds
TitleDurations == {2, 4}
BodyDurations == {3}
CommentDurations == {1, 2}

\* what the synthesizer and AudioFileClip do for one comment: the synthesis
\* fails, the written file does not load, or it loads with a duration d
\* (d is 0 where no clip is loaded)
Outcomes ==
    {[synth_ok |-> FALSE, load_ok |-> FALSE, d |-> 0],
     [synth_ok |-> TRUE, load_ok |-> FALSE, d |-> 0]}
    \cup {[synth_ok |-> TRUE, load_ok |-> TRUE, d |-> x * UnitsPerSecond] :
              x \in CommentDurations}

Comments == [body : CommentBodies, score : Scores]
CommentLists == UNION {[1..n -> Comments] : n \in 0..MaxComments}

VARIABLES
    post,                      \* post_data: title, body, comments
    config,                    \* max_duration_seconds, speed_factor, max_comments_per_post
    pc,                        \* position in the per-post pipeline
    post_image_files,          \* list returned by post_to_images
    audio_files,               \* audio files on disk: identifier -> duration
    audio_segment_map,         \* identifiers whose audio is included
    current_video_duration,    \* cumulative raw audio duration
    comments_to_process,       \* the comments of the loop, as indices of post.comments
    c_idx,                     \* index of the comment loop (0-based)
    tts_calls,                 \* identifiers the synthesizer was invoked for
    budget_excluded,           \* ranks (c_idx+1) rejected by the budget test
    comment_duration,          \* rank -> duration of the comment clip that was loaded
    synth_failed,              \* identifiers generate_audio returned False for
    audio_clip_duration_map,   \* identifier -> speed adjusted duration
    processed_audio_clips,     \* durations of the clips to concatenate
    image_duration_list_final, \* frames: image, duration, audio identifier
    video,                     \* outcome of generate_video
    \* --- text layout of src/content/generator.py
    lpc,                       \* position in the layout of one text
    layout_text,               \* the text: paragraphs of words
    layout_max_width,          \* width the lines are wrapped to
    wrapped_comment_lines,     \* lines returned by _wrap_text
    available_text_height_in_bg, \* room for comment lines on one image
    start_line_index,          \* first line of the next comment part
    part_idx,                  \* index of the next comment part
    comment_parts,             \* the parts generated: index, first and next line
    layout_max_lines,          \* line limit given to _draw_multiline
    drawn,                     \* outcome of _draw_multiline
    \* --- ShortsContentPlanner of src/llm/generator.py
    planner_pc,                \* "idle", "ready" (constructed) or "planned"
    max_tokens,                \* self.max_tokens
    llm_pipeline,              \* whether self._llm_pipeline was loaded
    prompt_length,             \* len(prompt) of the last plan_content
    safe_max_length,           \* max_length of the last pipeline call, <<>> without
    \* --- RedditParser of src/reddit/parser.py
    parser_pc,                 \* "idle" or "ready" (constructed)
    max_files_per_subreddit,   \* self.max_files_per_subreddit
    stored_files,              \* the files of the output directory
    clock,                     \* the time
    last_save,                 \* the last save_posts call: subreddit, file saved,
                               \* files matched and removed (<<>>: none yet)
    \* --- the loops over the posts of a data file
    runner,                    \* the loop: "main", "generate_from_json", "video_generator"
    posts,                     \* the posts of the data file
    post_index,                \* position of the loop (1-based)
    run_state,                 \* "running", "finished", or how the loop was left
    post_results,              \* what became of the posts the loop reached
    \* --- two posts processed concurrently on one ContentImageGenerator
    image_generator,           \* its fields output_dir and current_post_index
    worker_pc,                 \* position of each worker in its post
    worker_idx,                \* idx argument each worker has evaluated
    written_images             \* the image files written: by, dir, idx, page

vars == <<post, config, pc, post_image_files, audio_files, audio_segment_map,
          current_video_duration, comments_to_process, c_idx, tts_calls,
          budget_excluded, comment_duration, synth_failed,
          audio_clip_duration_map, processed_audio_clips,
          image_duration_list_final, video,
          lpc, layout_text, layout_max_width, wrapped_comment_lines,
          available_text_height_in_bg, start_line_index, part_idx,
          comment_parts, layout_max_lines, drawn,
          planner_pc, max_tokens, llm_pipeline, prompt_length, safe_max_length,
          parser_pc, max_files_per_subreddit, stored_files, clock, last_save,
          runner, posts, post_index, run_state, post_results,
          image_generator, worker_pc, worker_idx, written_images>>

\* ---------------------------------------------------------------- helpers
RECURSIVE SumOver(_, _)
SumOver(f, S) ==
    IF S = {} THEN 0
    ELSE LET x == CHOOSE y \in S : TRUE IN f[x] + SumOver(f, S \ {x})

Max(a, b) == IF a >= b THEN a ELSE b

\* identifiers of audio segments: 'title_1', 'body_1', 'comment<n>_1'
TitleId == <<"title", 1>>
BodyId == <<"body", 1>>
CommentId(n) == <<"comment", n>>

\* image files: the main post image post_<idx>_<id>.png and the comment
\* parts post_<idx>_comment_<i>_part_<p>.png (i 0-based, p 1-based)
MainImage == <<"post", 0, 0>>
CommentImage(i, p) == <<"comment", i, p>>

\* ContentImageGenerator._remove_urls: URLs are deleted, the rest is kept
IsNotUrl(t) == t # "u"
RemoveUrls(text) == SelectSeq(text, IsNotUrl)

\* len(text.strip()) of a token sequence joined by single spaces
\* (a lower bound: every token has at least two characters)
RECURSIVE CharLen(_)
CharLen(text) ==
    IF text = <<>> THEN 0
    ELSE 2 + (IF Len(text) > 1 THEN 1 ELSE 0) + CharLen(Tail(text))

\* TTSGenerator.generate_audio up to the synthesizer call: TRUE when the
\* cleaned text is long enough for the synthesizer to be invoked
ReachesSynthesizer(text) ==
    LET text_to_synthesize == RemoveUrls(text)
    IN ~(text_to_synthesize = <<>> \/ CharLen(text_to_synthesize) < 2)

\* f"{comment_author}: {comment_body}"
CommentText(comment) == <<"a:">> \o comment.body

\* a sort that puts the later of two comments of equal score first
BeforeTiesReversed(comments, i, j) ==
    \/ comments[i].score > comments[j].score
    \/ comments[i].score = comments[j].score /\ i > j

\* sorted(comments, key=score, reverse=True): the original (1-based)
\* indices in descending score, equal scores in their original order
Before(comments, i, j) ==
    \/ comments[i].score > comments[j].score
    \/ comments[i].score = comments[j].score /\ i < j
SortedComments(comments) ==
    [r \in 1..Len(comments) |->
        CHOOSE i \in 1..Len(comments) :
            Cardinality({j \in 1..Len(comments) : Before(comments, j, i)}) = r - 1]

\* sorted_comments[:max_comments_per_post]
CommentsToProcess(p, cfg) ==
    LET sorted_comments == SortedComments(p.comments)
        n == IF cfg.max_comments_per_post < Len(sorted_comments)
             THEN cfg.max_comments_per_post ELSE Len(sorted_comments)
    IN SubSeq(sorted_comments, 1, n)

\* post_to_images: the main image for the title, the same file again for a
\* body that is not empty after URL removal, then for every comment of the
\* post, in the order of the post's list and under its index in that list,
\* the parts it is paginated into; a comment that is empty after URL
\* removal is skipped.  parts[i] is the number of parts of comment i.
RECURSIVE CommentImages(_, _, _)
CommentImages(comments, parts, i) ==
    IF i > Len(comments) THEN <<>>
    ELSE (IF RemoveUrls(comments[i].body) = <<>> THEN <<>>
          ELSE [p \in 1..parts[i] |-> CommentImage(i - 1, p)])
         \o CommentImages(comments, parts, i + 1)

PostToImagesResult(p, parts) ==
    <<MainImage>>
    \o (IF RemoveUrls(p.body) # <<>> THEN <<MainImage>> ELSE <<>>)
    \o CommentImages(p.comments, parts, 1)

\* the files on disk after os.remove(path)
RemoveFile(files, id) == [x \in DOMAIN files \ {id} |-> files[x]]
WriteFile(files, id, d) == [x \in DOMAIN files \cup {id} |-> IF x = id THEN d ELSE files[x]]

\* variants of the budget test: a strict comparison, a test of the
\* cumulative duration before the comment is added, an inverted comparison
FitsBudgetStrict(cumulative, duration, budget) == cumulative + duration < budget
FitsBudgetBeforeAdding(cumulative, duration, budget) == cumulative <= budget
FitsBudgetInverted(cumulative, duration, budget) == cumulative + duration >= budget

\* the budget test of the comment loop (line 373)
FitsBudget(cumulative, duration, budget) == cumulative + duration <= budget

\* a loop that goes on to the next comment after a rejection
ScanContinuesAfterExclusion == FALSE

\* after a comment is rejected by the budget test the loop is left (break)
ScanStopsAtExclusion == TRUE

TypeOK ==
    /\ post \in [title : Titles, body : PostBodies, comments : CommentLists]
    /\ config \in [max_duration_seconds : Budgets, speed_factor : SpeedFactors,
                   max_comments_per_post : CommentCaps]
    /\ pc \in {"images", "title", "body", "comments", "comment_loop",
               "assemble", "done", "skipped"}
    /\ c_idx \in 0..MaxComments
    /\ budget_excluded \subseteq 1..MaxComments

\* no text is being laid out
LayoutIdle ==
    /\ lpc = "idle"
    /\ layout_text = <<>>
    /\ layout_max_width = 0
    /\ wrapped_comment_lines = <<>>
    /\ available_text_height_in_bg = 0
    /\ start_line_index = 0
    /\ part_idx = 1
    /\ comment_parts = <<>>
    /\ layout_max_lines = <<>>
    /\ drawn = [error |-> FALSE, lines |-> <<>>]

\* no content planner has been constructed
PlannerIdle ==
    /\ planner_pc = "idle"
    /\ max_tokens = 0
    /\ llm_pipeline = FALSE
    /\ prompt_length = 0
    /\ safe_max_length = <<>>

\* no parser has been constructed
ParserIdle ==
    /\ parser_pc = "idle"
    /\ max_files_per_subreddit = 0
    /\ stored_files = {}
    /\ clock = 0
    /\ last_save = <<>>

\* no data file is being processed
BatchIdle ==
    /\ runner = "idle"
    /\ posts = <<>>
    /\ post_index = 1
    /\ run_state = "idle"
    /\ post_results = <<>>

\* no post is processed concurrently
WorkersIdle ==
    /\ image_generator = [output_dir |-> <<>>, current_post_index |-> <<>>]
    /\ worker_pc = <<>>
    /\ worker_idx = <<>>
    /\ written_images = {}

Init ==
    /\ LayoutIdle
    /\ PlannerIdle
    /\ ParserIdle
    /\ BatchIdle
    /\ WorkersIdle
    /\ post \in [title : Titles, body : PostBodies, comments : CommentLists]
    /\ config \in [max_duration_seconds : Budgets, speed_factor : SpeedFactors,
                   max_comments_per_post : CommentCaps]
    /\ pc = "images"
    /\ post_image_files = <<>>
    /\ audio_files = <<>>
    /\ audio_segment_map = {}
    /\ current_video_duration = 0
    /\ comments_to_process = <<>>
    /\ c_idx = 0
    /\ tts_calls = {}
    /\ budget_excluded = {}
    /\ comment_duration = <<>>
    /\ synth_failed = {}
    /\ audio_clip_duration_map = <<>>
    /\ processed_audio_clips = <<>>
    /\ image_duration_list_final = <<>>
    /\ video = "none"

\* groups of variables an action leaves alone; the pipeline never touches
\* the variables of the text layout
layout_vars == <<lpc, layout_text, layout_max_width, wrapped_comment_lines,
                 available_text_height_in_bg, start_line_index, part_idx,
                 comment_parts, layout_max_lines, drawn>>
planner_vars == <<planner_pc, max_tokens, llm_pipeline, prompt_length,
                  safe_max_length>>
parser_vars == <<parser_pc, max_files_per_subreddit, stored_files, clock,
                 last_save>>
batch_vars == <<runner, posts, post_index, run_state, post_results>>
worker_vars == <<image_generator, worker_pc, worker_idx, written_images>>
inputs == <<post, config, layout_vars, planner_vars, parser_vars, batch_vars,
            worker_vars>>
loop_vars == <<current_video_duration, comments_to_process, c_idx,
               budget_excluded, comment_duration>>
audio_vars == <<audio_files, audio_segment_map, tts_calls, synth_failed>>
video_vars == <<audio_clip_duration_map, processed_audio_clips,
                image_duration_list_final, video>>

\* lines 291-308: the images of the post; an exception or an empty list
\* skips the post
PostToImages ==
    /\ pc = "images"
    /\ \E raised \in BOOLEAN, parts \in [1..Len(post.comments) -> PartCounts] :
          LET files == IF raised THEN <<>> ELSE PostToImagesResult(post, parts)
          IN /\ post_image_files' = files
             /\ pc' = IF raised \/ files = <<>> THEN "skipped" ELSE "title"
    /\ UNCHANGED <<inputs, loop_vars, audio_vars, video_vars>>

\* tts_generator.generate_audio(text, path) for the segment id: synth_ok is
\* whether the synthesizer call succeeds, d the length of the audio it
\* writes.  The synthesizer is invoked only for a cleaned text of at least
\* two characters; the function returns True when it succeeded.
GenerateAudioCalls(calls, id, text) ==
    IF ReachesSynthesizer(text) THEN calls \cup {id} ELSE calls
GenerateAudioFiles(files, id, text, synth_ok, d) ==
    IF ReachesSynthesizer(text) /\ synth_ok THEN WriteFile(files, id, d) ELSE files
GenerateAudioReturns(text, synth_ok) == ReachesSynthesizer(text) /\ synth_ok

\* lines 322-340: the audio of the title (of the body): synthesized when the
\* text is not empty, entered in audio_segment_map when that succeeded
SegmentAudio(id, text, durations) ==
    IF text # <<>>
    THEN \E synth_ok \in BOOLEAN, d \in durations :
            /\ tts_calls' = GenerateAudioCalls(tts_calls, id, text)
            /\ audio_files' = GenerateAudioFiles(audio_files, id, text, synth_ok, Sec(d))
            /\ audio_segment_map' =
                  IF GenerateAudioReturns(text, synth_ok)
                  THEN audio_segment_map \cup {id} ELSE audio_segment_map
            /\ synth_failed' =
                  IF GenerateAudioReturns(text, synth_ok)
                  THEN synth_failed ELSE synth_failed \cup {id}
    ELSE UNCHANGED audio_vars

\* lines 322-330
TitleAudio ==
    /\ pc = "title"
    /\ SegmentAudio(TitleId, post.title, TitleDurations)
    /\ pc' = "body"
    /\ UNCHANGED <<inputs, post_image_files, loop_vars, video_vars>>

\* lines 332-340
BodyAudio ==
    /\ pc = "body"
    /\ SegmentAudio(BodyId, post.body, BodyDurations)
    /\ pc' = "comments"
    /\ UNCHANGED <<inputs, post_image_files, loop_vars, video_vars>>

\* lines 351-355: the duration of a clip of the map whose file exists,
\* else nothing
ClipDuration(map, files, id) ==
    IF id \in map /\ id \in DOMAIN files THEN files[id] ELSE 0

\* lines 343-357: the comments to process; with at least one, the title and
\* body audio lengths start the cumulative duration
BeginComments ==
    /\ pc = "comments"
    /\ comments_to_process' = CommentsToProcess(post, config)
    /\ IF comments_to_process' # <<>>
       THEN /\ current_video_duration' =
                  current_video_duration
                  + ClipDuration(audio_segment_map, audio_files, TitleId)
                  + ClipDuration(audio_segment_map, audio_files, BodyId)
            /\ pc' = "comment_loop"
       ELSE /\ UNCHANGED current_video_duration
            /\ pc' = "assemble"
    /\ c_idx' = 0
    /\ UNCHANGED <<inputs, post_image_files, budget_excluded, comment_duration,
                   audio_vars, video_vars>>

\* lines 359-393, one iteration of the comment loop on the loop's state s
\* (map, cumulative, files, calls, failed, durations, excluded, stopped)
\* for the comment of rank n (c_idx+1) with text: synth_ok is whether the
\* synthesizer succeeds, load_ok whether AudioFileClip loads the written
\* file, d the clip's duration.
CommentStep(s, n, text, synth_ok, load_ok, d, budget) ==
    LET id == CommentId(n)
        s1 == [s EXCEPT !.calls = GenerateAudioCalls(@, id, text),
                        !.files = GenerateAudioFiles(@, id, text, synth_ok, d)]
    IN IF ~GenerateAudioReturns(text, synth_ok)
       THEN [s1 EXCEPT !.failed = @ \cup {id}]
       ELSE IF ~load_ok THEN [s1 EXCEPT !.files = RemoveFile(@, id)]
       ELSE IF FitsBudget(s1.cumulative, d, budget)
            THEN [s1 EXCEPT !.map = @ \cup {id},
                            !.cumulative = @ + d,
                            !.durations = WriteFile(@, n, d)]
            ELSE [s1 EXCEPT !.files = RemoveFile(@, id),
                            !.durations = WriteFile(@, n, d),
                            !.excluded = @ \cup {n},
                            !.stopped = ScanStopsAtExclusion]

\* the state the comment loop works on
LoopState ==
    [map |-> audio_segment_map,
     cumulative |-> current_video_duration,
     files |-> audio_files,
     calls |-> tts_calls,
     failed |-> synth_failed,
     durations |-> comment_duration,
     excluded |-> budget_excluded,
     stopped |-> FALSE]

CommentIteration ==
    /\ pc = "comment_loop"
    /\ LET comment == post.comments[comments_to_process[c_idx + 1]]
       IN \E o \in Outcomes :
             \E s \in {CommentStep(LoopState, c_idx + 1, CommentText(comment),
                                   o.synth_ok, o.load_ok, o.d,
                                   Sec(config.max_duration_seconds))} :
                /\ audio_segment_map' = s.map
                /\ current_video_duration' = s.cumulative
                /\ audio_files' = s.files
                /\ tts_calls' = s.calls
                /\ synth_failed' = s.failed
                /\ comment_duration' = s.durations
                /\ budget_excluded' = s.excluded
                /\ IF s.stopped \/ c_idx + 1 >= Len(comments_to_process)
                   THEN pc' = "assemble" /\ c_idx' = c_idx
                   ELSE pc' = "comment_loop" /\ c_idx' = c_idx + 1
    /\ UNCHANGED <<inputs, post_image_files, comments_to_process, video_vars>>

\* a sort key that puts the comments in descending rank
sort_descending_rank(id) ==
    IF id[1] = "title" THEN <<0, 0>>
    ELSE IF id[1] = "body" THEN <<1, 0>>
    ELSE <<2 + MaxComments - id[2], 1>>

\* sort_audio_segments: the sort key of an audio identifier
sort_audio_segments(id) ==
    IF id[1] = "title" THEN <<0, 0>>
    ELSE IF id[1] = "body" THEN <<1, 0>>
    ELSE <<2 + id[2], 1>>

KeyLess(a, b) == a[1] < b[1] \/ (a[1] = b[1] /\ a[2] < b[2])

\* sorted(audio_segment_map.items(), key=sort_audio_segments)
RECURSIVE SortedSegments(_)
SortedSegments(ids) ==
    IF ids = {} THEN <<>>
    ELSE LET first == CHOOSE x \in ids :
                 \A y \in ids \ {x} :
                     KeyLess(sort_audio_segments(x), sort_audio_segments(y))
         IN <<first>> \o SortedSegments(ids \ {first})

\* clip.fx(vfx.speedx, factor): the duration divided by the factor
SpeedAdjusted(d, factor) == (d * factor[2]) \div factor[1]

\* audio_clip_duration_map.get(identifier, 0)
DurationOf(durations, id) == IF id \in DOMAIN durations THEN durations[id] ELSE 0

IsMainImage(img) == img = MainImage

\* the image parts of the comment with 0-based index i, sorted by part
CommentParts(files, i) ==
    LET all_comment_parts == {files[k] : k \in {k \in 1..Len(files) :
                                  files[k][1] = "comment" /\ files[k][2] = i}}
    IN [p \in 1..Cardinality(all_comment_parts) |->
           CHOOSE img \in all_comment_parts :
               Cardinality({x \in all_comment_parts : x[3] < img[3]}) = p - 1]

\* the frames of one audio identifier: its duration split equally over its
\* matching images
SegmentFrames(images, id, durations) ==
    [k \in 1..Len(images) |->
        [img |-> images[k],
         duration |-> DurationOf(durations, id) \div Len(images),
         segment |-> id]]

\* lines 474-515: the frames of the comment identifiers, in the sorted order
RECURSIVE CommentFrames(_, _, _)
CommentFrames(segments, files, durations) ==
    IF segments = <<>> THEN <<>>
    ELSE LET id == Head(segments)
         IN (IF id[1] = "comment"
             THEN SegmentFrames(CommentParts(files, id[2] - 1), id, durations)
             ELSE <<>>)
            \o CommentFrames(Tail(segments), files, durations)

RECURSIVE TotalDuration(_)
TotalDuration(frames) ==
    IF frames = <<>> THEN 0 ELSE Head(frames).duration + TotalDuration(Tail(frames))

\* lines 526-531: the last image absorbs the difference between the audio
\* and the images, floored at 0.01 s
AdjustLastImage(frames, total_audio_duration) ==
    LET duration_difference == total_audio_duration - TotalDuration(frames)
        last_image_index == Len(frames)
    IN IF frames = <<>> THEN frames
       ELSE [frames EXCEPT ![last_image_index].duration =
                Max(MinLastDuration, @ + duration_difference)]

\* VideoGenerator.generate_video of src/video/generator.py: None without
\* images or without an audio clip, else the path of the written file
\* (write_videofile is taken to succeed)
generate_video(frames, has_audio) ==
    IF frames = <<>> THEN "None"
    ELSE IF ~has_audio THEN "None"
    ELSE "path"

\* a loader that applies the budget to the title and the body as well
LoadedSegmentsWithinBudget(map, files) ==
    LET budget == Sec(config.max_duration_seconds)
        title == IF TitleId \in map /\ TitleId \in DOMAIN files
                 THEN files[TitleId] ELSE 0
    IN SelectSeq(SortedSegments(map),
                 LAMBDA id : /\ id \in DOMAIN files
                             /\ id = TitleId => files[id] <= budget
                             /\ id = BodyId => title + files[id] <= budget)

\* lines 400-427: the included clips whose file exists, in sorted order
LoadedSegments(map, files) ==
    SelectSeq(SortedSegments(map), LAMBDA id : id \in DOMAIN files)

\* lines 429-515: the main image is given the title's and then the body's
\* duration, every included comment's parts its duration
InitialFrames(map, files, durations) ==
    LET main_post_images == SelectSeq(files, IsMainImage)
    IN SegmentFrames(main_post_images, TitleId, durations)
       \o SegmentFrames(main_post_images, BodyId, durations)
       \o CommentFrames(SortedSegments(map), files, durations)

\* lines 400-582: the clips are loaded and speed adjusted, the frames are
\* built, the last one is adjusted to the total audio length and
\* generate_video is called (without audio when no clip was processed)
BuildVideo ==
    /\ pc = "assemble"
    /\ \E loaded \in {LoadedSegments(audio_segment_map, audio_files)} :
       \E durations \in {[id \in {loaded[k] : k \in 1..Len(loaded)} |->
                            SpeedAdjusted(audio_files[id], config.speed_factor)]} :
       \E frames \in {InitialFrames(audio_segment_map, post_image_files, durations)} :
          /\ processed_audio_clips' = [k \in 1..Len(loaded) |-> durations[loaded[k]]]
          /\ audio_clip_duration_map' = durations
          /\ IF loaded # <<>>
             THEN \E adjusted \in {AdjustLastImage(frames,
                                      SumOver(durations, DOMAIN durations))} :
                     /\ image_duration_list_final' = adjusted
                     /\ video' = IF adjusted = <<>> THEN "not_called"
                                 ELSE generate_video(adjusted, TRUE)
             ELSE /\ image_duration_list_final' = frames
                  /\ video' = IF frames # <<>> THEN generate_video(frames, FALSE)
                              ELSE "not_called"
    /\ pc' = "done"
    /\ UNCHANGED <<inputs, post_image_files, loop_vars, audio_vars>>

Next ==
    \/ PostToImages
    \/ TitleAudio
    \/ BodyAudio
    \/ BeginComments
    \/ CommentIteration
    \/ BuildVideo

Spec == Init /\ [][Next]_vars

\* ------------------------------------------------------------ text layout
\* ContentImageGenerator of src/content/generator.py: _wrap_text,
\* _draw_multiline and the pagination of a comment into image parts.
\* A word is its number of characters (0: the empty string that split(' ')
\* yields between two consecutive spaces), a line is the sequence of its
\* non-empty words joined by single spaces (<<>>: the empty string), a
\* paragraph is its sequence of words and a text its sequence of
\* paragraphs.  The measure is one unit per character.
Words == {0, 1, 2, 4}
MaxWidths == {3, 5}
Paragraphs == UNION {[1..n -> Words] : n \in 0..MaxWords}
LastParagraphs == {<<>>, <<1>>, <<4>>}
Texts ==
    {<<p>> : p \in Paragraphs}
    \cup {<<p, q>> : p \in Paragraphs, q \in LastParagraphs}
\* max_lines of _draw_multiline: <<>> is None, <<n>> the limit n
MaxLinesValues == {<<>>, <<0>>, <<1>>, <<2>>}
\* font_comment.size + 8
LineHeight == 36 + 8
AvailableHeights == {0, LineHeight, 100}
\* the width of "..."
EllipsisWidth == Len("...")

RECURSIVE SumWords(_)
SumWords(line) == IF line = <<>> THEN 0 ELSE Head(line) + SumWords(Tail(line))

\* textbbox width of a line
Width(line) == IF line = <<>> THEN 0 ELSE SumWords(line) + Len(line) - 1

\* the string of one word
WordLine(word) == IF word = 0 THEN <<>> ELSE <<word>>

\* (current_line + ' ' + word).strip()
TestLine(current_line, word) == current_line \o WordLine(word)

\* a width test that forgets the separating spaces
FitsWithoutSpaces(line, width) == SumWords(line) <= width

\* text_width <= max_width
Fits(line, width) == Width(line) <= width

\* a line closed with the word that did not fit still on it
CloseLineWithWord(sub_lines, current_line, test_line) ==
    Append(sub_lines, test_line)

\* sub_lines.append(current_line) when the next word does not fit
CloseLine(sub_lines, current_line, test_line) == Append(sub_lines, current_line)

\* lines 74-88: the loop over the words of one paragraph
RECURSIVE WrapWords(_, _, _, _)
WrapWords(words, current_line, sub_lines, width) ==
    IF words = <<>>
    THEN IF current_line # <<>> THEN Append(sub_lines, current_line) ELSE sub_lines
    ELSE LET word == Head(words)
             test_line == TestLine(current_line, word)
         IN IF Fits(test_line, width)
            THEN WrapWords(Tail(words), test_line, sub_lines, width)
            ELSE WrapWords(Tail(words), WordLine(word),
                           CloseLine(sub_lines, current_line, test_line), width)

wrap_paragraph(paragraph, width) == WrapWords(paragraph, <<>>, <<>>, width)

\* a wrap that takes the whole text as one paragraph
RECURSIVE JoinParagraphs(_)
JoinParagraphs(paragraphs) ==
    IF paragraphs = <<>> THEN <<>>
    ELSE Head(paragraphs) \o JoinParagraphs(Tail(paragraphs))
wrap_text_ignoring_breaks(paragraphs, width) ==
    wrap_paragraph(JoinParagraphs(paragraphs), width)

\* _wrap_text: the lines of every paragraph of text.split('\n'), in order
RECURSIVE wrap_text(_, _)
wrap_text(paragraphs, width) ==
    IF paragraphs = <<>> THEN <<>>
    ELSE wrap_paragraph(Head(paragraphs), width)
         \o wrap_text(Tail(paragraphs), width)

\* the character at position pos (1-based) of a line is a space
RECURSIVE IsSpace(_, _)
IsSpace(line, pos) ==
    IF Len(line) <= 1 \/ pos <= line[1] THEN FALSE
    ELSE IF pos = line[1] + 1 THEN TRUE
    ELSE IsSpace(Tail(line), pos - line[1] - 1)

\* lines 114-119: characters are removed from the end until the line is no
\* wider than available_width or empty; the number of characters left
TruncatedLength(length, available_width) ==
    IF length <= available_width THEN length
    ELSE IF available_width > 0 THEN available_width ELSE 0

\* last_line.strip(): a space left at the end is removed
StrippedLength(line, kept) ==
    IF kept > 0 /\ IsSpace(line, kept) THEN kept - 1 ELSE kept

\* a line as drawn: its characters before the ellipsis, and the ellipsis
PlainLine(line) == [chars |-> Width(line), ellipsis |-> FALSE]
DrawnWidth(l) == l.chars + (IF l.ellipsis THEN EllipsisWidth ELSE 0)

\* _draw_multiline: the lines drawn, or the IndexError of lines[-1] on the
\* empty list lines[:0]
draw_multiline(paragraphs, width, limit) ==
    LET lines == wrap_text(paragraphs, width)
    IN IF limit # <<>> /\ Len(lines) > limit[1]
       THEN IF limit[1] = 0 THEN [error |-> TRUE, lines |-> <<>>]
            ELSE LET kept == SubSeq(lines, 1, limit[1])
                     last_line == kept[Len(kept)]
                     available_width == width - EllipsisWidth
                     chars == StrippedLength(last_line,
                                  TruncatedLength(Width(last_line), available_width))
                 IN [error |-> FALSE,
                     lines |-> [k \in 1..Len(kept) |->
                                   IF k = Len(kept)
                                   THEN [chars |-> chars, ellipsis |-> TRUE]
                                   ELSE PlainLine(kept[k])]]
       ELSE [error |-> FALSE,
             lines |-> [k \in 1..Len(lines) |-> PlainLine(lines[k])]]

\* generate_comment_image_part lines 532-546: the index after the last line
\* that fits on the image, from line i on (n lines in all)
RECURSIVE FitLines(_, _, _, _)
FitLines(i, n, height_used, available) ==
    IF i < n /\ height_used + LineHeight <= available
    THEN FitLines(i + 1, n, height_used + LineHeight, available)
    ELSE i

end_line_index(start, n, available) == FitLines(start, n, 0, available)

\* a next part that starts on the last line of the part before
NextStartOverlapping(next_start_line_index) ==
    IF next_start_line_index > 0 THEN next_start_line_index - 1 ELSE 0

\* start_line_index = next_start_line_index
NextStart(next_start_line_index) == next_start_line_index

pipeline_vars == <<post, config, pc, post_image_files, loop_vars, audio_vars,
                   video_vars>>

outside_layout == <<pipeline_vars, planner_vars, parser_vars, batch_vars,
                    worker_vars>>

\* no post is being processed
PipelineIdle ==
    /\ post = [title |-> <<>>, body |-> <<>>, comments |-> <<>>]
    /\ config = [max_duration_seconds |-> 0, speed_factor |-> <<1, 1>>,
                 max_comments_per_post |-> 0]
    /\ pc = "idle"
    /\ post_image_files = <<>>
    /\ audio_files = <<>>
    /\ audio_segment_map = {}
    /\ current_video_duration = 0
    /\ comments_to_process = <<>>
    /\ c_idx = 0
    /\ tts_calls = {}
    /\ budget_excluded = {}
    /\ comment_duration = <<>>
    /\ synth_failed = {}
    /\ audio_clip_duration_map = <<>>
    /\ processed_audio_clips = <<>>
    /\ image_duration_list_final = <<>>
    /\ video = "none"

\* a text and the width it is laid out in
LayoutInit ==
    /\ PipelineIdle
    /\ PlannerIdle
    /\ ParserIdle
    /\ BatchIdle
    /\ WorkersIdle
    /\ lpc = "input"
    /\ layout_text \in Texts
    /\ layout_max_width \in MaxWidths
    /\ wrapped_comment_lines = <<>>
    /\ available_text_height_in_bg = 0
    /\ start_line_index = 0
    /\ part_idx = 1
    /\ comment_parts = <<>>
    /\ layout_max_lines = <<>>
    /\ drawn = [error |-> FALSE, lines |-> <<>>]

\* post_to_images lines 812-828: the comment text is wrapped; without lines
\* the comment is skipped, else the part loop starts at line 0 with part 1
WrapCommentText ==
    /\ lpc = "input"
    /\ \E h \in AvailableHeights : available_text_height_in_bg' = h
    /\ wrapped_comment_lines' = wrap_text(layout_text, layout_max_width)
    /\ lpc' = IF wrapped_comment_lines' = <<>> THEN "paginated" ELSE "parts"
    /\ start_line_index' = 0
    /\ part_idx' = 1
    /\ UNCHANGED <<outside_layout, layout_text, layout_max_width, comment_parts,
                   layout_max_lines, drawn>>

\* post_to_images lines 830-851: one turn of the while loop, a call of
\* generate_comment_image_part
GenerateCommentImagePart ==
    /\ lpc = "parts"
    /\ part_idx <= MaxParts
    /\ \E next \in {end_line_index(start_line_index, Len(wrapped_comment_lines),
                                  available_text_height_in_bg)} :
          /\ comment_parts' = Append(comment_parts,
                                 [part_idx |-> part_idx,
                                  first |-> start_line_index,
                                  next |-> next])
          /\ start_line_index' = NextStart(next)
    /\ part_idx' = part_idx + 1
    /\ lpc' = IF start_line_index' < Len(wrapped_comment_lines)
              THEN "parts" ELSE "paginated"
    /\ UNCHANGED <<outside_layout, layout_text, layout_max_width,
                   wrapped_comment_lines, available_text_height_in_bg,
                   layout_max_lines, drawn>>

\* a call of _draw_multiline with the text, the width and a line limit
DrawMultiline ==
    /\ lpc = "input"
    /\ \E limit \in MaxLinesValues :
          /\ layout_max_lines' = limit
          /\ drawn' = draw_multiline(layout_text, layout_max_width, limit)
    /\ wrapped_comment_lines' = wrap_text(layout_text, layout_max_width)
    /\ lpc' = "drawn"
    /\ UNCHANGED <<outside_layout, layout_text, layout_max_width,
                   available_text_height_in_bg, start_line_index, part_idx,
                   comment_parts>>

LayoutNext ==
    \/ WrapCommentText
    \/ GenerateCommentImagePart
    \/ DrawMultiline

LayoutSpec == LayoutInit /\ [][LayoutNext]_vars

\* -------------------------------------------------------- content planner
\* ShortsContentPlanner of src/llm/generator.py: the max_length that
\* plan_content passes to the text generation pipeline.  Texts are their
\* lengths in characters.
\* the model's maximum context length
max_model_length == 1024
\* minimum expected output length
min_response_length == 20
\* limit of the body in the prompt
max_body_length == 400
\* the limit __init__ puts on max_tokens
MaxTokensLimit == 128
\* len(prompt) without the title and the body put into it
PromptTemplateLength == 364
\* the placeholder 'N/A' of an empty title or body
PlaceholderLength == Len("N/A")
\* llm.max_tokens of the configuration (30 is the default)
ConfigMaxTokens == {10, 30, 128, 500}
\* lengths of the stripped title
TitleLengths == {0, 50, 300, 700}
\* stripped bodies: the length, and the number of characters before the
\* last space among the first max_body_length characters (max_body_length
\* when there is no space among them)
PlannerBodies ==
    {[length |-> n, before_last_space |-> n] : n \in {0, 100, max_body_length}}
    \cup {[length |-> n, before_last_space |-> k] :
             n \in {max_body_length + 1, 1000}, k \in {1, 395, max_body_length}}

Min(a, b) == IF a <= b THEN a ELSE b

\* lines 71-73: body[:max_body_length].rsplit(' ', 1)[0] + '...'
TruncatedBodyLength(body) ==
    IF body.length > max_body_length
    THEN body.before_last_space + Len("...")
    ELSE body.length

\* lines 76-88: the prompt with the title and the truncated body
PromptLength(title_length, body_length) ==
    PromptTemplateLength
    + (IF title_length > 0 THEN title_length ELSE PlaceholderLength)
    + (IF body_length > 0 THEN body_length ELSE PlaceholderLength)

\* lines 99-103
SafeMaxLength(length, tokens) ==
    Max(length + min_response_length, Min(length + tokens, max_model_length))

\* __init__: max_tokens is limited, the pipeline is loaded or not
PlannerInit ==
    /\ PipelineIdle
    /\ LayoutIdle
    /\ ParserIdle
    /\ BatchIdle
    /\ WorkersIdle
    /\ planner_pc = "ready"
    /\ \E config_max_tokens \in ConfigMaxTokens :
          max_tokens = Min(config_max_tokens, MaxTokensLimit)
    /\ llm_pipeline \in BOOLEAN
    /\ prompt_length = 0
    /\ safe_max_length = <<>>

\* plan_content(post_data): the prompt is built and, with a loaded
\* pipeline, the pipeline is called with max_length = safe_max_length
PlanContent ==
    /\ planner_pc \in {"ready", "planned"}
    /\ \E title_length \in TitleLengths, body \in PlannerBodies :
          prompt_length' = PromptLength(title_length, TruncatedBodyLength(body))
    /\ safe_max_length' = IF llm_pipeline
                          THEN <<SafeMaxLength(prompt_length', max_tokens)>>
                          ELSE <<>>
    /\ planner_pc' = "planned"
    /\ UNCHANGED <<pipeline_vars, layout_vars, parser_vars, batch_vars,
                   worker_vars, max_tokens, llm_pipeline>>

PlannerNext == PlanContent

PlannerSpec == PlannerInit /\ [][PlannerNext]_vars

\* ----------------------------------------------------------- reddit parser
\* RedditParser of src/reddit/parser.py: save_posts and _cleanup_old_files.
\* A subreddit name is the sequence of its parts between underscores; a
\* file is {subreddit}_{timestamp}.json with its time of modification.
\* ticks of the clock in one second, the resolution of the timestamp
TicksPerSecond == 2
\* the last tick of the clock
MaxClock == 5
Subreddits == {<<"ask">>, <<"ask", "reddit">>, <<"pics">>}
MaxFilesValues == {0, 1, 2}

\* datetime.now().strftime("%Y%m%d_%H%M%S")
Timestamp(now) == now \div TicksPerSecond

\* two files have the same name
SameName(f, g) == f.subreddit = g.subreddit /\ f.timestamp = g.timestamp

\* the file name matches the pattern {subreddit}_*.json
GlobMatches(subreddit, f) ==
    /\ Len(f.subreddit) >= Len(subreddit)
    /\ SubSeq(f.subreddit, 1, Len(subreddit)) = subreddit

\* a sort that puts the newest file first
NewestFirst(f) == 0 - f.st_mtime

\* files.sort(key=lambda x: x.stat().st_mtime)
SortKey(f) == f.st_mtime

\* lines 27-29: the files popped from the front of the sorted list while
\* it is longer than max_files
OldFiles(files, max_files) ==
    {f \in files :
        Cardinality({g \in files : SortKey(g) < SortKey(f)})
            < Cardinality(files) - max_files}

outside_parser == <<pipeline_vars, layout_vars, planner_vars, batch_vars,
                    worker_vars>>

\* RedditParser(output_dir, max_files_per_subreddit) on an empty directory
ParserInit ==
    /\ PipelineIdle
    /\ LayoutIdle
    /\ PlannerIdle
    /\ BatchIdle
    /\ WorkersIdle
    /\ parser_pc = "ready"
    /\ max_files_per_subreddit \in MaxFilesValues
    /\ stored_files = {}
    /\ clock = 0
    /\ last_save = <<>>

\* save_posts(subreddit, posts): the file is written (over a file of the
\* same name), then _cleanup_old_files removes the oldest matching files
SavePosts ==
    /\ parser_pc = "ready"
    /\ clock < MaxClock
    /\ \E subreddit \in Subreddits :
       \E written \in {[subreddit |-> subreddit, timestamp |-> Timestamp(clock),
                        st_mtime |-> clock]} :
       \E files \in {{f \in stored_files : ~SameName(f, written)} \cup {written}} :
       \E matched \in {{f \in files : GlobMatches(subreddit, f)}} :
       \E removed \in {OldFiles(matched, max_files_per_subreddit)} :
          /\ stored_files' = files \ removed
          /\ last_save' = [subreddit |-> subreddit, saved |-> written,
                           matched |-> matched, removed |-> removed]
    /\ clock' = clock + 1
    /\ UNCHANGED <<outside_parser, parser_pc,
                   max_files_per_subreddit>>

\* time passes
Tick ==
    /\ parser_pc = "ready"
    /\ clock < MaxClock
    /\ clock' = clock + 1
    /\ UNCHANGED <<outside_parser, parser_pc,
                   max_files_per_subreddit, stored_files, last_save>>

\* a new RedditParser on the same directory with another limit
NewParser ==
    /\ parser_pc = "ready"
    /\ \E m \in MaxFilesValues \ {max_files_per_subreddit} :
          max_files_per_subreddit' = m
    /\ last_save' = <<>>
    /\ UNCHANGED <<outside_parser, parser_pc,
                   stored_files, clock>>

ParserNext ==
    \/ SavePosts
    \/ Tick
    \/ NewParser

ParserSpec == ParserInit /\ [][ParserNext]_vars

\* ------------------------------------------------------ loops over posts
\* The loops over the posts of one data file: main of src/main.py,
\* generate_from_json of src/content/generator.py and the script of
\* src/video/generator.py.  File names and audio identifiers are the
\* sequences of their parts between underscores.
\* most posts of a data file
MaxPosts == 2
Runners == {"main", "generate_from_json", "video_generator"}
\* post ids (<<>>: the post has no id)
PostIds == {<<>>, <<"a1">>, <<"title", "1">>}
BatchPosts == [id : PostIds, title : BOOLEAN, body : BOOLEAN, comment : BOOLEAN]
Batches == UNION {[1..n -> BatchPosts] : n \in 1..MaxPosts}

TitleName == <<"title", "1">>
BodyName == <<"body", "1">>
Comment1Name == <<"comment1", "1">>

\* the identifiers main generates audio for: the title and the body when
\* not empty, the first comment
AudioIdentifiers(p) ==
    (IF p.title THEN {TitleName} ELSE {})
    \cup (IF p.body THEN {BodyName} ELSE {})
    \cup (IF p.comment THEN {Comment1Name} ELSE {})

\* basename of the image of generate_post_only_image, without ".png":
\* post_{idx}_{id}
PostImageName(idx, id) == <<"post", ToString(idx)>> \o id

\* post_{post_idx}_comment_{comment_idx}_part_{part_idx}
CommentImageName(idx, comment_idx, part) ==
    <<"post", ToString(idx), "comment", ToString(comment_idx),
      "part", ToString(part)>>

\* the list returned by post_to_images for the post at 0-based index idx
BatchPostImages(p, idx) ==
    <<PostImageName(idx, p.id)>>
    \o (IF p.body THEN <<PostImageName(idx, p.id)>> ELSE <<>>)
    \o (IF p.comment THEN <<CommentImageName(idx, 0, 1)>> ELSE <<>>)

\* main line 289: f"_{identifier}.png" in os.path.basename(img_path)
NameMatches(name, identifier) ==
    /\ Len(name) > Len(identifier)
    /\ SubSeq(name, Len(name) - Len(identifier) + 1, Len(name)) = identifier

\* main lines 253-266: the key is a number for the title and the body and
\* a tuple for a comment; sorted() raises TypeError when it compares the two
SortRaises(map) ==
    /\ map \cap {TitleName, BodyName} # {}
    /\ Comment1Name \in map

\* the identifiers of map in the order of the sort key
SortedIdentifiers(map) ==
    SelectSeq(<<TitleName, BodyName, Comment1Name>>, LAMBDA id : id \in map)

\* main lines 269-313: the frames of the loaded clips, in sorted order
RECURSIVE MatchedFrames(_, _)
MatchedFrames(identifiers, images) ==
    IF identifiers = <<>> THEN <<>>
    ELSE LET identifier == Head(identifiers)
             matching_images ==
                 SelectSeq(images, LAMBDA name : NameMatches(name, identifier))
         IN [k \in 1..Len(matching_images) |->
                [img |-> matching_images[k], segment |-> identifier]]
            \o MatchedFrames(Tail(identifiers), images)

PostResult(status, audio, images, frames, outcome) ==
    [index |-> post_index, status |-> status, audio |-> audio,
     images |-> images, image_duration_list |-> frames, video |-> outcome]

\* the loop goes on to the next post, or ends after the last one
NextPost ==
    /\ post_index' = post_index + 1
    /\ run_state' = IF post_index = Len(posts) THEN "finished" ELSE "running"

\* the loop is left by an exception (state "aborted") or abandoned
LoopLeft(state) ==
    /\ post_index' = post_index
    /\ run_state' = state

BatchInit ==
    /\ PipelineIdle
    /\ LayoutIdle
    /\ PlannerIdle
    /\ ParserIdle
    /\ WorkersIdle
    /\ runner \in Runners
    /\ posts \in Batches
    /\ post_index = 1
    /\ run_state = "running"
    /\ post_results = <<>>

\* src/main.py lines 177-366: the loop body of main for one post.  No
\* exception of post_to_images or of sorted() is caught: it ends main.
MainPost ==
    /\ runner = "main"
    /\ run_state = "running"
    /\ LET p == posts[post_index]
       IN IF p.id = <<>>
          THEN /\ post_results' = Append(post_results,
                      PostResult("no_id", {}, <<>>, <<>>, "none"))
               /\ NextPost
          ELSE \E synthesized \in SUBSET AudioIdentifiers(p),
                  raised \in BOOLEAN :
               IF raised \/ SortRaises(synthesized)
               THEN /\ post_results' = Append(post_results,
                           PostResult("error", {}, <<>>, <<>>, "none"))
                    /\ LoopLeft("aborted")
               ELSE \E loaded \in SUBSET synthesized, write_ok \in BOOLEAN :
                    \E images \in {BatchPostImages(p, post_index - 1)} :
                    \E frames \in {MatchedFrames(SortedIdentifiers(loaded), images)} :
                       /\ post_results' = Append(post_results,
                              PostResult("done", loaded, images, frames,
                                  IF frames = <<>> \/ loaded = {} THEN "skipped"
                                  ELSE IF write_ok THEN "written" ELSE "failed"))
                       /\ NextPost
    /\ UNCHANGED <<pipeline_vars, layout_vars, planner_vars, parser_vars,
                   worker_vars, runner, posts>>

\* src/content/generator.py lines 714-743: the loop body of
\* generate_from_json; the try block encloses the whole loop, so an
\* exception of post_to_images ends the loop
GenerateFromJsonPost ==
    /\ runner = "generate_from_json"
    /\ run_state = "running"
    /\ LET p == posts[post_index]
       IN IF p.id = <<>>
          THEN /\ post_results' = Append(post_results,
                      PostResult("no_id", {}, <<>>, <<>>, "none"))
               /\ NextPost
          ELSE \E raised \in BOOLEAN :
               IF raised
               THEN /\ post_results' = Append(post_results,
                           PostResult("error", {}, <<>>, <<>>, "none"))
                    /\ LoopLeft("abandoned")
               ELSE /\ post_results' = Append(post_results,
                           PostResult("done", {},
                               BatchPostImages(p, post_index - 1), <<>>, "none"))
                    /\ NextPost
    /\ UNCHANGED <<pipeline_vars, layout_vars, planner_vars, parser_vars,
                   worker_vars, runner, posts>>

\* src/video/generator.py lines 269-308: the start of the loop body of the
\* script; an exception of post_to_images is caught and the loop continues
\* with the next post
VideoGeneratorPost ==
    /\ runner = "video_generator"
    /\ run_state = "running"
    /\ LET p == posts[post_index]
       IN IF p.id = <<>>
          THEN post_results' = Append(post_results,
                   PostResult("no_id", {}, <<>>, <<>>, "none"))
          ELSE \E raised \in BOOLEAN :
               post_results' = Append(post_results,
                   IF raised THEN PostResult("error", {}, <<>>, <<>>, "none")
                   ELSE PostResult("done", {},
                            BatchPostImages(p, post_index - 1), <<>>, "none"))
    /\ NextPost
    /\ UNCHANGED <<pipeline_vars, layout_vars, planner_vars, parser_vars,
                   worker_vars, runner, posts>>

BatchNext ==
    \/ MainPost
    \/ GenerateFromJsonPost
    \/ VideoGeneratorPost

BatchSpec == BatchInit /\ [][BatchNext]_vars

\* ------------------------------------------------------- concurrent posts
\* The per-post steps of main (src/main.py lines 239-241) run by two
\* workers on the one ContentImageGenerator main creates for a data file:
\* each sets output_dir and current_post_index and calls post_to_images,
\* which reads current_post_index for the idx argument and output_dir when
\* a file is saved.  Each statement is one step.
Workers == {1, 2}
\* the post of a worker: its index in the data file and its id
WorkerPost(w) == [index |-> w - 1, id |-> <<"id", ToString(w)>>]
\* os.path.join(image_base_dir, post_id)
PostOutputDir(p) == <<"images">> \o p.id
\* the pages a worker generates: the title page and one comment part
WorkerPages == <<"title", "comment">>

outside_workers == <<pipeline_vars, layout_vars, planner_vars, parser_vars,
                     batch_vars>>

ConcurrentInit ==
    /\ PipelineIdle
    /\ LayoutIdle
    /\ PlannerIdle
    /\ ParserIdle
    /\ BatchIdle
    /\ image_generator = [output_dir |-> <<"images">>,
                          current_post_index |-> <<>>]
    /\ worker_pc = [w \in Workers |-> [at |-> "set_dir", page |-> 1]]
    /\ worker_idx = [w \in Workers |-> <<>>]
    /\ written_images = {}

\* main line 239: image_generator.output_dir = current_post_image_output_dir
SetOutputDir(w) ==
    /\ worker_pc[w].at = "set_dir"
    /\ image_generator' = [image_generator EXCEPT
                              !.output_dir = PostOutputDir(WorkerPost(w))]
    /\ worker_pc' = [worker_pc EXCEPT ![w].at = "set_index"]
    /\ UNCHANGED <<outside_workers, worker_idx, written_images>>

\* main line 240: image_generator.current_post_index = post_index
SetPostIndex(w) ==
    /\ worker_pc[w].at = "set_index"
    /\ image_generator' = [image_generator EXCEPT
                              !.current_post_index = <<WorkerPost(w).index>>]
    /\ worker_pc' = [worker_pc EXCEPT ![w].at = "read_index"]
    /\ UNCHANGED <<outside_workers, worker_idx, written_images>>

\* post_to_images lines 778 and 839: idx=self.current_post_index
ReadPostIndex(w) ==
    /\ worker_pc[w].at = "read_index"
    /\ worker_idx' = [worker_idx EXCEPT ![w] = image_generator.current_post_index]
    /\ worker_pc' = [worker_pc EXCEPT ![w].at = "save"]
    /\ UNCHANGED <<outside_workers, image_generator, written_images>>

\* generate_post_only_image lines 383-385 and generate_comment_image_part
\* lines 569-571: the file is saved under self.output_dir
SaveImage(w) ==
    /\ worker_pc[w].at = "save"
    /\ written_images' = written_images \cup
           {[by |-> w, dir |-> image_generator.output_dir,
             idx |-> worker_idx[w], page |-> WorkerPages[worker_pc[w].page]]}
    /\ worker_pc' = [worker_pc EXCEPT ![w] =
           IF @.page = Len(WorkerPages) THEN [at |-> "done", page |-> @.page]
           ELSE [at |-> "read_index", page |-> @.page + 1]]
    /\ UNCHANGED <<outside_workers, image_generator, worker_idx>>

ConcurrentNext ==
    \E w \in Workers :
        \/ SetOutputDir(w)
        \/ SetPostIndex(w)
        \/ ReadPostIndex(w)
        \/ SaveImage(w)

ConcurrentSpec == ConcurrentInit /\ [][ConcurrentNext]_vars

\* ---------------------------------------------------------- properties
Budget == Sec(config.max_duration_seconds)
Done == pc = "done"
RankSet == 1..Len(comments_to_process)
FrameSet == 1..Len(image_duration_list_final)

\* the raw audio length of the title and the body the comment loop starts from
TitleBodyDuration ==
    ClipDuration(audio_segment_map, audio_files, TitleId)
    + ClipDuration(audio_segment_map, audio_files, BodyId)

\* the cumulative duration the budget test of rank n was made with: title,
\* body and the included comments of lower rank
CumulativeBefore(n) ==
    TitleBodyDuration
    + SumOver(comment_duration,
              {m \in DOMAIN comment_duration :
                  m < n /\ CommentId(m) \in audio_segment_map})

\* C1: once the comment of rank r is excluded by the budget test, no comment
\* of a rank above r is included in audio_segment_map.
C1_PriorityCutoff ==
    \A r \in budget_excluded :
        \A n \in RankSet : n > r => CommentId(n) \notin audio_segment_map

\* C1 case: a comment was excluded, a comment of higher rank follows it and
\* the shortest comment audio would still have fitted the budget
C1_Witness ==
    /\ Done
    /\ \E r \in budget_excluded :
          /\ r < Len(comments_to_process)
          /\ \E d \in CommentDurations :
                FitsBudget(current_video_duration, Sec(d), Budget)

\* C2: a comment whose audio was synthesized and loaded is included if and
\* only if the cumulative duration (title + body + included comments before
\* it) plus its own duration is at most the budget, equality included.
C2_InclusionIffFits ==
    \A n \in DOMAIN comment_duration :
        CommentId(n) \in audio_segment_map
            <=> CumulativeBefore(n) + comment_duration[n] <= Budget

\* C2 case: a comment that reaches the budget exactly and is included
C2_Witness ==
    /\ Done
    /\ \E n \in DOMAIN comment_duration :
          /\ CumulativeBefore(n) + comment_duration[n] = Budget
          /\ CumulativeBefore(n) > 0
          /\ CommentId(n) \in audio_segment_map

\* a title or body whose audio file the synthesizer wrote
Synthesized(id) == id \in tts_calls /\ id \notin synth_failed

TotalSeconds == TotalDuration(image_duration_list_final)

RECURSIVE RunCommentLoop(_, _, _, _)
RunCommentLoop(s, n, env, budget) ==
    IF n > Len(comments_to_process) \/ s.stopped THEN s
    ELSE RunCommentLoop(
             CommentStep(s, n,
                         CommentText(post.comments[comments_to_process[n]]),
                         env[n].synth_ok, env[n].load_ok, env[n].d, budget),
             n + 1, env, budget)

\* the state the comment loop of this post was entered with
LoopEntry ==
    [map |-> audio_segment_map \cap {TitleId, BodyId},
     cumulative |-> TitleBodyDuration,
     files |-> [id \in DOMAIN audio_files \cap {TitleId, BodyId} |-> audio_files[id]],
     calls |-> tts_calls \cap {TitleId, BodyId},
     failed |-> synth_failed \cap {TitleId, BodyId},
     durations |-> <<>>,
     excluded |-> {},
     stopped |-> FALSE]

\* the ranks the loop of this run got to
Processed == IF comments_to_process = <<>> THEN {} ELSE 1..(c_idx + 1)

\* the outcome this run had for the comment of rank n
Observed(n) ==
    [synth_ok |-> CommentId(n) \notin synth_failed,
     load_ok |-> n \in DOMAIN comment_duration,
     d |-> IF n \in DOMAIN comment_duration THEN comment_duration[n] ELSE 0]

\* the outcomes of this run, continued by rest on the ranks it did not get to
Continued(rest) ==
    [n \in RankSet |-> IF n \in Processed THEN Observed(n) ELSE rest[n]]

\* the number of segments a run of the loop includes
Included(env, budget) ==
    Cardinality(RunCommentLoop(LoopEntry, 1, env, budget).map)

\* the budgets of the model other than the budget of this run (a run with
\* the same budget and outcomes is this run)
OtherBudgets == Budgets \ {config.max_duration_seconds}

\* C5: a run on the same post with the same audio outcomes includes at
\* least as many segments as this run under any larger budget, and at most
\* as many under any smaller budget.
C5_BudgetMonotone ==
    Done =>
        \A rest \in [RankSet \ Processed -> Outcomes], b \in OtherBudgets :
            \A included \in {Included(Continued(rest), Sec(b))} :
                /\ Sec(b) >= Budget => included >= Cardinality(audio_segment_map)
                /\ Sec(b) <= Budget => included <= Cardinality(audio_segment_map)

\* C5 case: this run dropped a comment for the budget and the same run
\* under a larger budget includes strictly more segments
C5_Witness ==
    /\ Done
    /\ budget_excluded # {}
    /\ \E rest \in [RankSet \ Processed -> Outcomes] :
          \E b \in Budgets :
             /\ Sec(b) > Budget
             /\ Included(Continued(rest), Sec(b)) > Cardinality(audio_segment_map)

\* the summed duration of the frames built for the audio identifier id
FrameSum(id) ==
    TotalDuration(SelectSeq(image_duration_list_final,
                            LAMBDA f : f.segment = id))

Abs(x) == IF x >= 0 THEN x ELSE -x

\* C6 as stated: for every segment included in the final video the
\* durations of its frames sum to its speed adjusted audio duration to
\* within 1e-3 s.
C6_SegmentDurationExact ==
    Done =>
        \A id \in DOMAIN audio_clip_duration_map :
            1000 * Abs(FrameSum(id) - audio_clip_duration_map[id]) < UnitsPerSecond

\* C7 as stated: every frame of the list passed to generate_video lasts at
\* least 0.01 s.
C7_FrameFloor ==
    (Done /\ video # "not_called") =>
        \A k \in FrameSet : image_duration_list_final[k].duration >= MinLastDuration

\* C8 as stated: a post with only a title whose audio fits the budget has
\* exactly one frame, of the duration of the title audio, and that total.
C8_TitleOnlyOneFrame ==
    (/\ Done
     /\ post.body = <<>> /\ post.comments = <<>>
     /\ Synthesized(TitleId)
     /\ audio_files[TitleId] <= Budget) =>
        /\ Len(image_duration_list_final) = 1
        /\ image_duration_list_final[1].duration = audio_clip_duration_map[TitleId]
        /\ TotalSeconds = audio_clip_duration_map[TitleId]

\* the ranks of the comments to process whose body is empty after URL removal
EmptyRanks ==
    {n \in RankSet :
        RemoveUrls(post.comments[comments_to_process[n]].body) = <<>>}

\* C9 as stated: a comment whose body is empty after URL removal gets no
\* synthesis call, no entry in audio_segment_map and no frame of its images.
C9_EmptyCommentNoSegment ==
    /\ \A n \in EmptyRanks :
          /\ CommentId(n) \notin tts_calls
          /\ CommentId(n) \notin audio_segment_map
    /\ \A i \in 1..Len(post.comments) :
          RemoveUrls(post.comments[i].body) = <<>> =>
              \A k \in FrameSet :
                  image_duration_list_final[k].img[1] = "comment"
                      => image_duration_list_final[k].img[2] # i - 1

\* C10 as stated: a segment generate_audio returned False for has no frame
\* in the final frame list, and the post is processed to the end.
C10_FailedSegmentNoFrame ==
    Done =>
        \A id \in synth_failed :
            \A k \in FrameSet : image_duration_list_final[k].segment # id

\* the comment loop was entered or passed: comments_to_process is set
CommentsChosen == pc \in {"comment_loop", "assemble", "done"}

\* C11: the comments considered are the first max_comments_per_post comments
\* of the post in descending score, equal scores in their original order:
\* as many as the cap allows, no comment twice, scores never increasing,
\* ties in ascending original index, and every comment left out comes after
\* every comment considered in that order.
C11_TopCommentsByScore ==
    CommentsChosen =>
        LET n == Len(comments_to_process)
            chosen == {comments_to_process[r] : r \in 1..n}
            score(i) == post.comments[i].score
        IN /\ n = IF config.max_comments_per_post < Len(post.comments)
                  THEN config.max_comments_per_post ELSE Len(post.comments)
           /\ chosen \subseteq 1..Len(post.comments)
           /\ Cardinality(chosen) = n
           /\ \A r \in 1..n, q \in 1..n :
                 r < q =>
                    \/ score(comments_to_process[r]) > score(comments_to_process[q])
                    \/ /\ score(comments_to_process[r]) = score(comments_to_process[q])
                       /\ comments_to_process[r] < comments_to_process[q]
           /\ \A i \in chosen, j \in (1..Len(post.comments)) \ chosen :
                 score(i) > score(j) \/ (score(i) = score(j) /\ i < j)

\* C11 case: two comments of equal score under a cap of one: the first of
\* the post's list is the one considered
C11_Witness ==
    /\ Done
    /\ Len(post.comments) = 2
    /\ post.comments[1].score = post.comments[2].score
    /\ config.max_comments_per_post = 1
    /\ comments_to_process = <<1>>

\* the place of a frame in the order title, body, comments by rank
SegmentOrder(id) ==
    IF id = TitleId THEN 0 ELSE IF id = BodyId THEN 1 ELSE 1 + id[2]

C20_ExcludedCommentDiscarded ==
    Done =>
        \A r \in budget_excluded :
            /\ CommentId(r) \notin DOMAIN audio_files
            /\ CommentId(r) \notin DOMAIN audio_clip_duration_map
            /\ \A k \in FrameSet :
                  image_duration_list_final[k].img[1] = "comment" =>
                      image_duration_list_final[k].img[2] # comments_to_process[r] - 1

\* ------------------------------------------------- text layout properties
\* the text has been wrapped (by post_to_images or by _draw_multiline)
Wrapped == lpc # "input"
\* the part loop of post_to_images has been entered or left
Paginating == lpc \in {"parts", "paginated"}
\* lines of a comment that fit on one image
Capacity == available_text_height_in_bg \div LineHeight

\* C13: with a line capacity of zero for a comment, the pagination of the
\* comment yields zero pages (and so the part loop ends at once).
C13_ZeroCapacityNoPages ==
    (Paginating /\ Capacity = 0) => comment_parts = <<>>

\* C14: with body_max_lines = 0 and a body of at least one wrapped line,
\* drawing the body raises no error.
C14_ZeroBodyLinesNoError ==
    (lpc = "drawn" /\ layout_max_lines = <<0>>
        /\ Len(wrapped_comment_lines) >= 1)
    => ~drawn.error

\* C15: with a capacity of at least one line, the parts of a comment are
\* numbered 1, 2, 3, ..., every part holds at least one line and starts at
\* the line after the last line of the part before (the first at line 0),
\* and once the loop has ended the parts hold all the wrapped lines.
C15_PartsPartitionLines ==
    (Paginating /\ Capacity >= 1) =>
        /\ \A k \in 1..Len(comment_parts) :
              /\ comment_parts[k].part_idx = k
              /\ comment_parts[k].first =
                    (IF k = 1 THEN 0 ELSE comment_parts[k - 1].next)
              /\ comment_parts[k].next > comment_parts[k].first
              /\ comment_parts[k].next <= Len(wrapped_comment_lines)
        /\ (lpc = "paginated" /\ wrapped_comment_lines # <<>>) =>
              /\ comment_parts # <<>>
              /\ comment_parts[Len(comment_parts)].next
                    = Len(wrapped_comment_lines)

C15_Witness ==
    /\ lpc = "paginated"
    /\ Capacity = 1
    /\ Len(wrapped_comment_lines) >= 3
    /\ Len(comment_parts) = Len(wrapped_comment_lines)

\* _draw_multiline took the branch of line 97
Truncates ==
    /\ lpc = "drawn"
    /\ layout_max_lines # <<>>
    /\ Len(wrapped_comment_lines) > layout_max_lines[1]

\* C16: whenever _draw_multiline truncates, the last drawn line ends with
\* the ellipsis and is, ellipsis included, no wider than max_width.
C16_TruncatedLineFits ==
    Truncates =>
        /\ ~drawn.error
        /\ drawn.lines # <<>>
        /\ drawn.lines[Len(drawn.lines)].ellipsis
        /\ DrawnWidth(drawn.lines[Len(drawn.lines)]) <= layout_max_width

\* C17: every line of _wrap_text is no wider than max_width, except a line
\* that is a single token wider than max_width.
C17_LineWidthBound ==
    Wrapped =>
        \A k \in 1..Len(wrapped_comment_lines) :
            \/ Width(wrapped_comment_lines[k]) <= layout_max_width
            \/ /\ Len(wrapped_comment_lines[k]) = 1
               /\ wrapped_comment_lines[k][1] > layout_max_width

C17_Witness ==
    /\ Wrapped
    /\ \E k \in 1..Len(wrapped_comment_lines) :
          Len(wrapped_comment_lines[k]) >= 2
    /\ \E k \in 1..Len(wrapped_comment_lines) :
          Width(wrapped_comment_lines[k]) > layout_max_width

\* lines joined by single spaces and whitespace-collapsed: their words
RECURSIVE WordsOfLines(_)
WordsOfLines(lines) ==
    IF lines = <<>> THEN <<>> ELSE Head(lines) \o WordsOfLines(Tail(lines))

\* the words of a paragraph
WordsOf(paragraph) == SelectSeq(paragraph, LAMBDA word : word # 0)

\* the lines are, group after group, the words of the paragraphs
RECURSIVE LinesCover(_, _)
LinesCover(lines, paragraphs) ==
    IF paragraphs = <<>> THEN lines = <<>>
    ELSE \E n \in 0..Len(lines) :
            /\ WordsOfLines(SubSeq(lines, 1, n)) = WordsOf(Head(paragraphs))
            /\ LinesCover(SubSeq(lines, n + 1, Len(lines)), Tail(paragraphs))

\* C18: the lines of _wrap_text fall into consecutive groups, one for each
\* paragraph in order, and the lines of a group joined give exactly the
\* words of its paragraph in their order; no line holds words of two
\* paragraphs.
C18_NoContentLoss ==
    Wrapped => LinesCover(wrapped_comment_lines, layout_text)

C18_Witness ==
    /\ Wrapped
    /\ Len(layout_text) = 2
    /\ Len(WordsOf(layout_text[1])) >= 2
    /\ WordsOf(layout_text[2]) # <<>>
    /\ Len(wrapped_comment_lines) >= 3

\* ' '.join(lines).split(' '): the tokens of the lines rejoined with single
\* spaces (an empty line gives an empty token)
RECURSIVE JoinLines(_)
JoinLines(lines) ==
    IF lines = <<>> THEN <<>>
    ELSE (IF Head(lines) = <<>> THEN <<0>> ELSE Head(lines))
         \o JoinLines(Tail(lines))

\* the lines of every paragraph rejoined, the paragraph breaks kept
RejoinParagraphs(paragraphs, width) ==
    [k \in 1..Len(paragraphs) |->
        JoinLines(wrap_paragraph(paragraphs[k], width))]

\* C19 as stated: wrapping the lines of _wrap_text rejoined with single
\* spaces gives the same lines again.
C19_RewrapOfJoinedLines ==
    Wrapped =>
        wrap_text(<<JoinLines(wrapped_comment_lines)>>, layout_max_width)
            = wrapped_comment_lines

\* C19: wrapping the lines of _wrap_text, those of each paragraph rejoined
\* with single spaces and the paragraph breaks kept, gives the same lines
\* again.
C19_RewrapKeepingParagraphs ==
    Wrapped =>
        wrap_text(RejoinParagraphs(layout_text, layout_max_width),
                  layout_max_width)
            = wrapped_comment_lines

C19_Witness ==
    /\ Wrapped
    /\ Len(layout_text) = 2
    /\ Len(wrap_paragraph(layout_text[1], layout_max_width)) >= 2
    /\ wrap_paragraph(layout_text[2], layout_max_width) # <<>>
    /\ RejoinParagraphs(layout_text, layout_max_width) # layout_text

\* ------------------------------------------- further pipeline properties
\* the duration of the concatenated audio clip
TotalAudioDuration ==
    SumOver(audio_clip_duration_map, DOMAIN audio_clip_duration_map)

\* C23: for a post with at least one frame and one audio clip, the
\* durations of image_duration_list_final sum, after the adjustment of the
\* last image, to the duration of the concatenated audio clip.
C23_FramesSumToAudio ==
    (Done /\ image_duration_list_final # <<>> /\ processed_audio_clips # <<>>)
    => TotalSeconds = TotalAudioDuration

\* C24: the images shown during the audio of commentN are parts of the
\* comment whose text was synthesized as commentN.
C24_CommentImagesOfSameComment ==
    Done =>
        \A k \in FrameSet :
            image_duration_list_final[k].segment[1] = "comment" =>
                image_duration_list_final[k].img
                    \in {CommentImage(
                             comments_to_process[
                                 image_duration_list_final[k].segment[2]] - 1, p) :
                         p \in PartCounts}

\* C25: no two pages returned by post_to_images have the same file path.
C25_DistinctPagePaths ==
    \A i, j \in 1..Len(post_image_files) :
        i # j => post_image_files[i] # post_image_files[j]

\* C27: without a processed audio clip and with a non-empty frame list,
\* generate_video returns the path of a video without audio.
C27_VideoWithoutAudio ==
    (Done /\ processed_audio_clips = <<>> /\ image_duration_list_final # <<>>)
    => video = "path"

\* ------------------------------------------- further layout properties
\* C28: _wrap_text returns no empty line, also for a first token wider than
\* max_width.
C28_NoEmptyLine ==
    Wrapped =>
        \A k \in 1..Len(wrapped_comment_lines) : wrapped_comment_lines[k] # <<>>

\* ------------------------------------------- content planner properties
\* C29: the max_length passed to the pipeline is never more than the
\* model's maximum context length.
C29_SafeMaxLengthWithinModel ==
    safe_max_length # <<>> => safe_max_length[1] <= max_model_length

\* ---------------------------------------------------- reddit parser properties
\* the stored files of a subreddit
FilesOf(subreddit) == {f \in stored_files : f.subreddit = subreddit}

\* C30: when a save_posts call has returned, the subreddit has at most
\* max_files_per_subreddit stored files, every file removed is older than
\* every matching file kept, and with max_files_per_subreddit >= 1 the file
\* just saved is kept.
C30_CleanupKeepsNewest ==
    last_save # <<>> =>
        /\ Cardinality(FilesOf(last_save.subreddit)) <= max_files_per_subreddit
        /\ \A r \in last_save.removed :
              /\ r \notin stored_files
              /\ \A k \in last_save.matched \ last_save.removed :
                    r.st_mtime < k.st_mtime
        /\ max_files_per_subreddit >= 1 => last_save.saved \in stored_files

C30_Witness ==
    /\ last_save # <<>>
    /\ max_files_per_subreddit = 1
    /\ Cardinality(last_save.removed) >= 2
    /\ last_save.saved \in stored_files
    /\ \E r \in last_save.removed : r.subreddit = last_save.subreddit

\* ------------------------------------------------ properties of the loops
\* the loop reached the post at position j
Reached(j) == \E k \in 1..Len(post_results) : post_results[k].index = j

\* C21: when the processing of a post fails with an error, every later
\* post of the batch is still processed.
C21_LaterPostsProcessed ==
    run_state # "running" =>
        \A k \in 1..Len(post_results) :
            post_results[k].status = "error" =>
                \A j \in (post_results[k].index + 1)..Len(posts) : Reached(j)

\* C26: in main, every audio segment that was synthesized and loaded is
\* matched to at least one image of the post, so a post with audio and
\* images has a non-empty image_duration_list and is not skipped.
C26_AudioMatchedToImages ==
    runner = "main" =>
        \A k \in 1..Len(post_results) :
            (/\ post_results[k].status = "done"
             /\ post_results[k].audio # {}
             /\ post_results[k].images # <<>>) =>
                /\ \A id \in post_results[k].audio :
                      \E f \in 1..Len(post_results[k].image_duration_list) :
                          post_results[k].image_duration_list[f].segment = id
                /\ post_results[k].video # "skipped"

\* ------------------------------------------ properties of concurrent posts
\* C22: every image is written under the output directory of its own post
\* and named with the index of its own post, under every interleaving.
C22_ImagesInOwnNamespace ==
    \A f \in written_images :
        /\ f.dir = PostOutputDir(WorkerPost(f.by))
        /\ f.idx = <<WorkerPost(f.by).index>>

============================================================================
